---- MODULE Spec2Model ----
(***************************************************************************)
(* Model of rag_knowledge_base_mcp_server.py: the three MCP tools          *)
(* search_knowledge_base, get_document and list_collections, each a        *)
(* coroutine that talks to the remote RAG HTTP API and returns a JSON      *)
(* envelope.  One invocation is followed from its call to its return; a    *)
(* step of the model is the code that runs between two suspension points:  *)
(* await client.post/get, the awaited exit of `async with` that closes the *)
(* client, and await asyncio.sleep.                                        *)
(*                                                                         *)
(* Text is a sequence of one-character strings; an error text is a         *)
(* sequence of tokens; score_threshold is counted in tenths.               *)
(***************************************************************************)
EXTENDS Integers, Sequences, FiniteSets, TLC

\* ------------------------------------------------------------------ bounds
MaxStrLen == 2

\* --------------------------------------------------------------- constants
TopKMin == 1
TopKMax == 20
ScoreMin == 0
ScoreMax == 10
retry_delays == <<1, 2, 4>>

\* ------------------------------------------------------------ input domains
Chars == {" ", "a"}
Whitespace == {" "}
Strings == UNION {[1..n -> Chars] : n \in 0..MaxStrLen}
Collections == {"default", "kb"}
TopKInputs == {0, 1, 5, 20, 21}
ScoreInputs == {-1, 0, 7, 10, 11}

\* ------------------------------------------------------- python primitives
Max(a, b) == IF b > a THEN b ELSE a
Min(a, b) == IF b < a THEN b ELSE a

RECURSIVE LStrip(_)
LStrip(s) == IF s # <<>> /\ Head(s) \in Whitespace THEN LStrip(Tail(s)) ELSE s

RECURSIVE RStrip(_)
RStrip(s) ==
  IF s # <<>> /\ s[Len(s)] \in Whitespace
  THEN RStrip(SubSeq(s, 1, Len(s) - 1))
  ELSE s

\* str.strip()
Strip(s) == RStrip(LStrip(s))

\* Mutant of IsBlank: the test without the strip() part.
IsBlank_NoStrip(text) == text = <<>>

\* `not text or not text.strip()`
IsBlank(text) == text = <<>> \/ Strip(text) = <<>>

\* Mutant of ClampTopK: the lower clamp alone.
ClampTopK_NoUpper(k) == Max(TopKMin, k)

\* min(max(1, top_k), 20)
ClampTopK(k) == Min(Max(TopKMin, k), TopKMax)

\* min(max(0.0, score_threshold), 1.0)
ClampScore(s) == Min(Max(ScoreMin, s), ScoreMax)

\* ---------------------------------------------------------- remote outcomes
\* JSON values the remote may put under a key of its response object.
JsonArray(v) == [t |-> "array", v |-> v]
JsonNull == [t |-> "null", v |-> <<>>]

\* Response bodies: not JSON at all, a JSON array, or a JSON object with at
\* most one key.
MalformedBody == [t |-> "invalid", key |-> "", val |-> JsonNull]
ArrayBody == [t |-> "array", key |-> "", val |-> JsonNull]
ObjectBody(key, val) == [t |-> "object", key |-> key, val |-> val]
EmptyObject == [t |-> "object", key |-> "", val |-> JsonNull]

Bodies ==
  { MalformedBody, ArrayBody, EmptyObject,
    ObjectBody("documents", JsonArray(<<>>)),
    ObjectBody("documents", JsonArray(<<"doc1", "doc2">>)),
    ObjectBody("documents", JsonNull),
    ObjectBody("collections", JsonArray(<<>>)),
    ObjectBody("collections", JsonArray(<<"c1">>)) }

OkStatuses == {200}
ErrorStatuses == {301, 404, 408, 429, 500, 503}
TimeoutKinds == {"ConnectTimeout", "ReadTimeout"}
OtherTransportKinds == {"ConnectError"}

\* What one network call can end with.
Outcomes ==
  [kind : {"response"}, status : OkStatuses, body : Bodies]
    \cup [kind : {"response"}, status : ErrorStatuses, body : {MalformedBody}]
    \cup [kind : TimeoutKinds \cup OtherTransportKinds, status : {0},
          body : {MalformedBody}]

NoResponse == [kind |-> "unset", status |-> 0, body |-> MalformedBody]

\* ---------------------------------------------------------------- exceptions
NoException == [type |-> "none", msg |-> <<>>]

\* httpx: Response.raise_for_status() message, by status class.
StatusClass(status) ==
  CASE status \div 100 = 1 -> "Informational response"
    [] status \div 100 = 3 -> "Redirect response"
    [] status \div 100 = 4 -> "Client error"
    [] OTHER -> "Server error"

HTTPStatusError(status, path) ==
  [type |-> "HTTPStatusError",
   msg |-> <<StatusClass(status), ToString(status), "for url", path>>]

\* Response.is_success
IsSuccess(status) == status >= 200 /\ status <= 299

\* The exception `await client.post/get(...)` followed by
\* `response.raise_for_status()` raises for an outcome, if any.
RequestException(o, path) ==
  IF o.kind = "response"
  THEN IF IsSuccess(o.status) THEN NoException
       ELSE HTTPStatusError(o.status, path)
  ELSE IF o.kind \in TimeoutKinds THEN [type |-> o.kind, msg |-> <<>>]
  ELSE [type |-> o.kind, msg |-> <<"All connection attempts failed">>]

NameErrorAsyncio ==
  [type |-> "NameError", msg |-> <<"name", "asyncio", "is not defined">>]
JSONDecodeError == [type |-> "JSONDecodeError", msg |-> <<"Expecting value">>]
AttributeErrorGet ==
  [type |-> "AttributeError", msg |-> <<"list", "object has no attribute", "get">>]
TypeErrorLen ==
  [type |-> "TypeError", msg |-> <<"object of type", "NoneType", "has no len()">>]

\* Mutant of IsTimeoutException: a clause that catches every transport error.
IsTimeoutException_AnyTransport(e) ==
  e.type \in TimeoutKinds \cup OtherTransportKinds

\* except httpx.TimeoutException
IsTimeoutException(e) == e.type \in TimeoutKinds
\* except httpx.HTTPStatusError
IsHTTPStatusError(e) == e.type = "HTTPStatusError"
\* Mutant of IsException: an outer clause that catches httpx errors only.
IsException_HttpxOnly(e) ==
  e.type \in TimeoutKinds \cup OtherTransportKinds \cup {"HTTPStatusError"}

\* except Exception
IsException(e) ==
  e.type \in TimeoutKinds \cup OtherTransportKinds
               \cup {"HTTPStatusError", "NameError", "JSONDecodeError",
                     "AttributeError", "TypeError"}

\* Mutant of IsRetryableStatus: every 4xx counted as retryable too.
IsRetryableStatus_Any4xx(status_code) == status_code >= 400

\* `status_code >= 500 or status_code in [408, 429]`
IsRetryableStatus(status_code) == status_code >= 500 \/ status_code \in {408, 429}

\* ---------------------------------------------------------------------- state
VARIABLES
  asyncio_bound,    \* the module's globals hold the name asyncio
  op,               \* the tool invoked, "none" before the call
  pc,               \* "idle", "await_post", "await_get", "closing", "sleep",
                    \* "done", "raised"
  args,             \* the arguments as the caller passed them
  query, collection_name, top_k, score_threshold, document_id,   \* locals
  attempt,          \* loop variable of the retry loop, 0 outside it
  response,         \* local `response`, NoResponse while unassigned
  requests,         \* the network calls issued so far, in order
  outcomes,         \* how each of them ended, in order
  slept,            \* the backoff delays waited so far, in order
  result,           \* the envelope returned
  raised,           \* the exception that left the coroutine, if any
  parked            \* the frame of a second invocation, suspended by the loop

vars == <<asyncio_bound, op, pc, args, query, collection_name, top_k,
          score_threshold, document_id, attempt, response, requests, outcomes,
          slept, result, raised, parked>>

NoResult == [returned |-> FALSE]
NoArgs == [tool |-> "none"]

\* The frame of a tool coroutine that has not been called yet.
IdleFrame ==
  [op |-> "none", pc |-> "idle", args |-> NoArgs, query |-> <<>>,
   collection_name |-> "default", top_k |-> 5, score_threshold |-> 7,
   document_id |-> <<>>, attempt |-> 0, response |-> NoResponse,
   requests |-> <<>>, outcomes |-> <<>>, slept |-> <<>>, result |-> NoResult,
   raised |-> NoException]

\* `asyncio` is imported only under `if __name__ == "__main__":`, so the name
\* is bound when the file runs as a script and unbound when it is imported.
Init ==
  /\ asyncio_bound \in BOOLEAN
  /\ op = "none"
  /\ pc = "idle"
  /\ args = NoArgs
  /\ query = <<>>
  /\ collection_name = "default"
  /\ top_k = 5
  /\ score_threshold = 7
  /\ document_id = <<>>
  /\ attempt = 0
  /\ response = NoResponse
  /\ requests = <<>>
  /\ outcomes = <<>>
  /\ slept = <<>>
  /\ result = NoResult
  /\ raised = NoException
  /\ parked = IdleFrame

\* ------------------------------------------------------------------ requests
SearchPath == "/api/search"
DocumentPath == "/api/document/"
CollectionsPath == "/api/collections"

SearchRequest(q, c, k, s) ==
  [method |-> "POST", path |-> SearchPath,
   body |-> [query |-> q, collection_name |-> c, top_k |-> k,
             score_threshold |-> s]]

DocumentRequest(d, c) ==
  [method |-> "GET", path |-> DocumentPath, id |-> d, collection |-> c]

CollectionsRequest == [method |-> "GET", path |-> CollectionsPath]

\* ----------------------------------------------------------------- envelopes
SearchValidationFailure(q) ==
  [success |-> FALSE, error |-> <<"Query cannot be empty">>, query |-> q]

SearchSuccess(q, c, documents) ==
  [success |-> TRUE, query |-> q, collection |-> c, results |-> documents,
   count |-> Len(documents)]

SearchFailure(e, q, c) ==
  [success |-> FALSE, error |-> e.msg, query |-> q, collection |-> c]

DocumentValidationFailure ==
  [success |-> FALSE, error |-> <<"Document ID cannot be empty">>]

DocumentSuccess(document) == [success |-> TRUE, document |-> document]

\* Mutant of DocumentFailure: the envelope without its context field.
DocumentFailure_NoContext(e, d) == [success |-> FALSE, error |-> e.msg]

DocumentFailure(e, d) ==
  [success |-> FALSE, error |-> e.msg, document_id |-> d]

CollectionsSuccess(collections) ==
  [success |-> TRUE, collections |-> collections]

CollectionsFailure(e) == [success |-> FALSE, error |-> e.msg]

\* ------------------------------------------------------------ response parse
\* response.json(); result_data.get(key, []); len(...) in the log line.
\* Gives the exception raised on the way, or NoException.
ParseException(body) ==
  IF body.t = "invalid" THEN JSONDecodeError
  ELSE IF body.t # "object" THEN AttributeErrorGet
  ELSE NoException

\* Mutant of GetField: the default is returned whether the key is there or not.
GetField_AlwaysDefault(body, key) == JsonArray(<<>>)

\* result_data.get(key, [])
GetField(body, key) == IF body.key = key THEN body.val ELSE JsonArray(<<>>)

\* len(value) in the f-string of the success log line
LenException(value) == IF value.t = "array" THEN NoException ELSE TypeErrorLen

ParseListException(body, key) ==
  IF ParseException(body) # NoException THEN ParseException(body)
  ELSE LenException(GetField(body, key))

\* --------------------------------------------------------------- the handlers
\* Mutant of OuterExcept: the clause logs the error and raises it again.
OuterExcept_Reraises(e, failure) ==
  /\ result' = NoResult
  /\ raised' = e
  /\ pc' = "raised"

\* The outermost `except Exception as e:` of a tool: the envelope `failure`
\* is returned when the clause catches e, and e leaves the coroutine otherwise.
OuterExcept(e, failure) ==
  IF IsException(e)
  THEN /\ result' = failure
       /\ raised' = NoException
       /\ pc' = "done"
  ELSE /\ result' = NoResult
       /\ raised' = e
       /\ pc' = "raised"

\* Mutant of SearchParse: a parse failure is retried like a transient error.
SearchParse_RetryOnBadBody(body) ==
  LET e == ParseListException(body, "documents") IN
  IF e = NoException
  THEN /\ result' = SearchSuccess(query, collection_name,
                                  GetField(body, "documents").v)
       /\ raised' = NoException
       /\ pc' = "done"
  ELSE IF attempt < Len(retry_delays) /\ asyncio_bound
  THEN /\ pc' = "sleep"
       /\ UNCHANGED <<result, raised>>
  ELSE OuterExcept(e, SearchFailure(e, query, collection_name))

\* Leaving the retry loop by `break` and running lines 131-143.
SearchParse(body) ==
  LET e == ParseListException(body, "documents") IN
  IF e = NoException
  THEN /\ result' = SearchSuccess(query, collection_name,
                                  GetField(body, "documents").v)
       /\ raised' = NoException
       /\ pc' = "done"
  ELSE OuterExcept(e, SearchFailure(e, query, collection_name))

\* `await asyncio.sleep(delay)`: suspends when the name is bound, raises
\* NameError inside the except clause otherwise.
SleepOrNameError ==
  IF asyncio_bound
  THEN /\ pc' = "sleep"
       /\ UNCHANGED <<result, raised>>
  ELSE OuterExcept(NameErrorAsyncio,
                   SearchFailure(NameErrorAsyncio, query, collection_name))

\* Mutant of Reraise: the clause falls out of the loop into the parse of
\* whatever `response` holds.
Reraise_FallsThrough(e) == SearchParse(response'.body)

\* `raise e` inside an inner except clause.
Reraise(e) == OuterExcept(e, SearchFailure(e, query, collection_name))

\* Mutant of SearchHandle: `attempt <= len(retry_delays)`, one retry too many.
SearchHandle_OffByOne(e, status_code) ==
  IF IsTimeoutException(e)
  THEN IF attempt <= Len(retry_delays) THEN SleepOrNameError ELSE Reraise(e)
  ELSE IF IsHTTPStatusError(e)
  THEN IF IsRetryableStatus(status_code)
       THEN IF attempt <= Len(retry_delays) THEN SleepOrNameError
            ELSE Reraise(e)
       ELSE Reraise(e)
  ELSE Reraise(e)

\* The two inner except clauses of the retry loop, lines 105-129.
SearchHandle(e, status_code) ==
  IF IsTimeoutException(e)
  THEN IF attempt < Len(retry_delays) THEN SleepOrNameError ELSE Reraise(e)
  ELSE IF IsHTTPStatusError(e)
  THEN IF IsRetryableStatus(status_code)
       THEN IF attempt < Len(retry_delays) THEN SleepOrNameError
            ELSE Reraise(e)
       ELSE Reraise(e)
  ELSE Reraise(e)

\* search_knowledge_base, from the call to the first await.
search_knowledge_base(q, c, k, s) ==
  /\ pc = "idle"
  /\ op' = "search_knowledge_base"
  /\ args' = [tool |-> "search_knowledge_base", query |-> q,
              collection_name |-> c, top_k |-> k, score_threshold |-> s]
  /\ query' = q
  /\ collection_name' = c
  /\ UNCHANGED <<parked, asyncio_bound, document_id, response, outcomes, slept, raised>>
  /\ IF IsBlank(q)
     THEN /\ result' = SearchValidationFailure(q)
          /\ pc' = "done"
          /\ UNCHANGED <<top_k, score_threshold, attempt, requests>>
     ELSE /\ top_k' = ClampTopK(k)
          /\ score_threshold' = ClampScore(s)
          /\ attempt' = 1
          /\ requests' = Append(requests,
                                SearchRequest(q, c, top_k', score_threshold'))
          /\ pc' = "await_post"
          /\ UNCHANGED result

\* The exit of `async with httpx.AsyncClient() as client:` is awaited: it
\* suspends the coroutine while a connection that was kept alive is closed.
\* That can happen after a response and after a read timeout; a call that
\* never got a connection has nothing to close.
ClientCloseSuspends(o) == o.kind \in {"response", "ReadTimeout"}

\* What follows the `async with` block of an attempt that ended with o:
\* `break` and the parse, or the inner except clauses.
SearchAfterCall(o) ==
  LET e == RequestException(o, SearchPath) IN
  IF e = NoException THEN SearchParse(response'.body)
  ELSE SearchHandle(e, o.status)

\* The awaited POST of the current attempt ends with outcome o; `response`
\* is bound and raise_for_status has run.  The block is left either through
\* a suspending close of the client or, when nothing is left to close (no
\* connection, `Connection: close`), straight away.
SearchAttemptCompletes(o) ==
  /\ pc = "await_post"
  /\ outcomes' = Append(outcomes, o)
  /\ response' = IF o.kind = "response" THEN o ELSE response
  /\ UNCHANGED <<parked, asyncio_bound, op, args, query, collection_name, top_k,
                 score_threshold, document_id, attempt, requests, slept>>
  /\ \/ /\ ClientCloseSuspends(o)
        /\ pc' = "closing"
        /\ UNCHANGED <<result, raised>>
     \/ SearchAfterCall(o)

\* The client of the current attempt is closed; the coroutine goes on after
\* the `async with` block.
SearchClientClosed ==
  /\ pc = "closing"
  /\ op = "search_knowledge_base"
  /\ UNCHANGED <<parked, asyncio_bound, op, args, query, collection_name, top_k,
                 score_threshold, document_id, attempt, requests, slept,
                 outcomes, response>>
  /\ SearchAfterCall(outcomes[Len(outcomes)])

\* Mutant of BackoffElapses: the sleep is not awaited, the next attempt
\* starts with no delay waited.
BackoffElapses_NoWait ==
  /\ pc = "sleep"
  /\ attempt' = attempt + 1
  /\ requests' = Append(requests,
                        SearchRequest(query, collection_name, top_k,
                                      score_threshold))
  /\ pc' = "await_post"
  /\ UNCHANGED <<parked, asyncio_bound, op, args, query, collection_name, top_k,
                 score_threshold, document_id, response, outcomes, slept,
                 result, raised>>

\* Mutant of BackoffElapses: the retry is built from the arguments as passed,
\* not from the clamped locals.
BackoffElapses_RawArguments ==
  /\ pc = "sleep"
  /\ slept' = Append(slept, retry_delays[attempt])
  /\ attempt' = attempt + 1
  /\ requests' = Append(requests,
                        SearchRequest(args.query, args.collection_name,
                                      args.top_k, args.score_threshold))
  /\ pc' = "await_post"
  /\ UNCHANGED <<parked, asyncio_bound, op, args, query, collection_name, top_k,
                 score_threshold, document_id, response, outcomes, result,
                 raised>>

\* asyncio.sleep(delay) returns; `continue` starts the next attempt.
BackoffElapses ==
  /\ pc = "sleep"
  /\ slept' = Append(slept, retry_delays[attempt])
  /\ attempt' = attempt + 1
  /\ requests' = Append(requests,
                        SearchRequest(query, collection_name, top_k,
                                      score_threshold))
  /\ pc' = "await_post"
  /\ UNCHANGED <<parked, asyncio_bound, op, args, query, collection_name, top_k,
                 score_threshold, document_id, response, outcomes, result,
                 raised>>

\* get_document, from the call to the await.
get_document(d, c) ==
  /\ pc = "idle"
  /\ op' = "get_document"
  /\ args' = [tool |-> "get_document", document_id |-> d, collection_name |-> c]
  /\ document_id' = d
  /\ collection_name' = c
  /\ UNCHANGED <<parked, asyncio_bound, query, top_k, score_threshold, attempt,
                 response, outcomes, slept, raised>>
  /\ IF IsBlank(d)
     THEN /\ result' = DocumentValidationFailure
          /\ pc' = "done"
          /\ UNCHANGED requests
     ELSE /\ requests' = Append(requests, DocumentRequest(d, c))
          /\ pc' = "await_get"
          /\ UNCHANGED result

\* Mutant of GetDocumentAfterCall: the call is issued again, up to three
\* times, after a timeout or a retryable status.
GetDocumentAfterCall_Retrying(o) ==
  LET e1 == RequestException(o, DocumentPath)
      e == IF e1 # NoException THEN e1
           ELSE IF o.body.t = "invalid" THEN JSONDecodeError
           ELSE NoException
      again == /\ Len(requests) < Len(retry_delays)
               /\ \/ IsTimeoutException(e)
                  \/ IsHTTPStatusError(e) /\ IsRetryableStatus(o.status)
  IN IF again
     THEN /\ requests' = Append(requests,
                                DocumentRequest(document_id, collection_name))
          /\ pc' = "await_get"
          /\ UNCHANGED <<result, raised>>
     ELSE /\ UNCHANGED requests
          /\ IF e = NoException
             THEN /\ result' = DocumentSuccess(o.body)
                  /\ raised' = NoException
                  /\ pc' = "done"
             ELSE OuterExcept(e, DocumentFailure(e, document_id))

\* What get_document does with the outcome o of its call, lines 195-213:
\* the envelope of the parsed body, or the outer except clause.  No further
\* request is made.
GetDocumentAfterCall(o) ==
  LET e1 == RequestException(o, DocumentPath)
      e == IF e1 # NoException THEN e1
           ELSE IF o.body.t = "invalid" THEN JSONDecodeError
           ELSE NoException
  IN /\ UNCHANGED requests
     /\ IF e = NoException
        THEN /\ result' = DocumentSuccess(o.body)
             /\ raised' = NoException
             /\ pc' = "done"
        ELSE OuterExcept(e, DocumentFailure(e, document_id))

\* The awaited GET of get_document ends with outcome o; the `async with`
\* block is left through a suspending close of the client or straight away.
GetDocumentCompletes(o) ==
  /\ pc = "await_get"
  /\ op = "get_document"
  /\ outcomes' = Append(outcomes, o)
  /\ response' = IF o.kind = "response" THEN o ELSE response
  /\ UNCHANGED <<parked, asyncio_bound, op, args, query, collection_name, top_k,
                 score_threshold, document_id, attempt, slept>>
  /\ \/ /\ ClientCloseSuspends(o)
        /\ pc' = "closing"
        /\ UNCHANGED <<requests, result, raised>>
     \/ GetDocumentAfterCall(o)

\* The client of get_document is closed; the envelope is returned.
GetDocumentClientClosed ==
  /\ pc = "closing"
  /\ op = "get_document"
  /\ UNCHANGED <<parked, asyncio_bound, op, args, query, collection_name, top_k,
                 score_threshold, document_id, attempt, slept, outcomes,
                 response>>
  /\ GetDocumentAfterCall(outcomes[Len(outcomes)])

\* list_collections, from the call to the await.
list_collections ==
  /\ pc = "idle"
  /\ op' = "list_collections"
  /\ args' = [tool |-> "list_collections"]
  /\ requests' = Append(requests, CollectionsRequest)
  /\ pc' = "await_get"
  /\ UNCHANGED <<parked, asyncio_bound, query, collection_name, top_k, score_threshold,
                 document_id, attempt, response, outcomes, slept, result,
                 raised>>

\* What list_collections does with the outcome o of its call, lines 239-257.
ListCollectionsAfterCall(o) ==
  LET e1 == RequestException(o, CollectionsPath)
      e == IF e1 # NoException THEN e1
           ELSE ParseListException(o.body, "collections")
  IN IF e = NoException
     THEN /\ result' = CollectionsSuccess(GetField(o.body, "collections").v)
          /\ raised' = NoException
          /\ pc' = "done"
     ELSE OuterExcept(e, CollectionsFailure(e))

\* The awaited GET of list_collections ends with outcome o; the `async with`
\* block is left through a suspending close of the client or straight away.
ListCollectionsCompletes(o) ==
  /\ pc = "await_get"
  /\ op = "list_collections"
  /\ outcomes' = Append(outcomes, o)
  /\ response' = IF o.kind = "response" THEN o ELSE response
  /\ UNCHANGED <<parked, asyncio_bound, op, args, query, collection_name, top_k,
                 score_threshold, document_id, attempt, requests, slept>>
  /\ \/ /\ ClientCloseSuspends(o)
        /\ pc' = "closing"
        /\ UNCHANGED <<result, raised>>
     \/ ListCollectionsAfterCall(o)

\* The client of list_collections is closed; the envelope is returned.
ListCollectionsClientClosed ==
  /\ pc = "closing"
  /\ op = "list_collections"
  /\ UNCHANGED <<parked, asyncio_bound, op, args, query, collection_name, top_k,
                 score_threshold, document_id, attempt, requests, slept,
                 outcomes, response>>
  /\ ListCollectionsAfterCall(outcomes[Len(outcomes)])

Next ==
  \/ \E q \in Strings, c \in Collections, k \in TopKInputs, s \in ScoreInputs :
       search_knowledge_base(q, c, k, s)
  \/ \E o \in Outcomes : SearchAttemptCompletes(o)
  \/ SearchClientClosed
  \/ BackoffElapses
  \/ \E d \in Strings, c \in Collections : get_document(d, c)
  \/ \E o \in Outcomes : GetDocumentCompletes(o)
  \/ GetDocumentClientClosed
  \/ list_collections
  \/ \E o \in Outcomes : ListCollectionsCompletes(o)
  \/ ListCollectionsClientClosed

Spec == Init /\ [][Next]_vars

\* The claim's premises of termination: every network call yields an
\* outcome and every backoff delay elapses; closing a client ends as well.
FairSpec ==
  /\ Spec
  /\ WF_vars(\E o \in Outcomes : SearchAttemptCompletes(o))
  /\ WF_vars(SearchClientClosed)
  /\ WF_vars(BackoffElapses)
  /\ WF_vars(\E o \in Outcomes : GetDocumentCompletes(o))
  /\ WF_vars(GetDocumentClientClosed)
  /\ WF_vars(\E o \in Outcomes : ListCollectionsCompletes(o))
  /\ WF_vars(ListCollectionsClientClosed)

\* ------------------------------------------------- two invocations, one loop
\* The frame of the running coroutine: its arguments and locals, its position
\* and what it has done so far.
Frame ==
  [op |-> op, pc |-> pc, args |-> args, query |-> query,
   collection_name |-> collection_name, top_k |-> top_k,
   score_threshold |-> score_threshold, document_id |-> document_id,
   attempt |-> attempt, response |-> response, requests |-> requests,
   outcomes |-> outcomes, slept |-> slept, result |-> result,
   raised |-> raised]

\* Mutant of Resume: `attempt` kept at module level, shared by the coroutines.
Resume_SharedAttempt(f) ==
  /\ op' = f.op
  /\ pc' = f.pc
  /\ args' = f.args
  /\ query' = f.query
  /\ collection_name' = f.collection_name
  /\ top_k' = f.top_k
  /\ score_threshold' = f.score_threshold
  /\ document_id' = f.document_id
  /\ attempt' = attempt
  /\ response' = f.response
  /\ requests' = f.requests
  /\ outcomes' = f.outcomes
  /\ slept' = f.slept
  /\ result' = f.result
  /\ raised' = f.raised

\* The event loop resumes the coroutine whose frame is f: every name of the
\* tool functions is a parameter or a local, so all of them come from f.
Resume(f) ==
  /\ op' = f.op
  /\ pc' = f.pc
  /\ args' = f.args
  /\ query' = f.query
  /\ collection_name' = f.collection_name
  /\ top_k' = f.top_k
  /\ score_threshold' = f.score_threshold
  /\ document_id' = f.document_id
  /\ attempt' = f.attempt
  /\ response' = f.response
  /\ requests' = f.requests
  /\ outcomes' = f.outcomes
  /\ slept' = f.slept
  /\ result' = f.result
  /\ raised' = f.raised

\* Every state of the model is one where the running coroutine is suspended
\* at an await (the call, the close of the client, the sleep), has returned
\* or has not been called: the single-threaded loop may run the other
\* invocation there.
Switch ==
  /\ parked' = Frame
  /\ Resume(parked)
  /\ UNCHANGED asyncio_bound

\* Inputs and remote outcomes of the two-invocation specification.
ConcTexts == {<<"a">>, <<" ">>}
ConcTopK == {5, 21}
ConcOutcomes ==
  { [kind |-> "response", status |-> 503, body |-> MalformedBody],
    [kind |-> "response", status |-> 404, body |-> MalformedBody],
    [kind |-> "ReadTimeout", status |-> 0, body |-> MalformedBody],
    [kind |-> "response", status |-> 200, body |-> MalformedBody],
    [kind |-> "response", status |-> 200,
     body |-> ObjectBody("documents", JsonArray(<<"doc1", "doc2">>))] }

\* A step of the running invocation.
RunningStep ==
  \/ \E q \in ConcTexts, k \in ConcTopK :
       search_knowledge_base(q, "default", k, 7)
  \/ \E o \in ConcOutcomes : SearchAttemptCompletes(o)
  \/ SearchClientClosed
  \/ BackoffElapses
  \/ \E d \in ConcTexts : get_document(d, "kb")
  \/ \E o \in ConcOutcomes : GetDocumentCompletes(o)
  \/ GetDocumentClientClosed
  \/ list_collections
  \/ \E o \in ConcOutcomes : ListCollectionsCompletes(o)
  \/ ListCollectionsClientClosed

ConcNext == RunningStep \/ Switch

SpecConc == Init /\ [][ConcNext]_vars

\* ======================================================================
\* Properties
\* ======================================================================
Last(seq) == seq[Len(seq)]
Contains(text, token) == \E i \in DOMAIN text : text[i] = token
IsPrefix(a, b) == Len(a) <= Len(b) /\ SubSeq(b, 1, Len(a)) = a

\* Text that is empty or made of whitespace only.
OnlyWhitespace(text) == \A i \in DOMAIN text : text[i] = " "

\* A retryable condition: a timeout, or a status >= 500, 408 or 429.
RetryableFailure(o) ==
  \/ o.kind \in {"ConnectTimeout", "ReadTimeout"}
  \/ o.kind = "response" /\ (o.status >= 500 \/ o.status = 408 \/ o.status = 429)

\* A non-2xx status below 500 that is neither 408 nor 429.
PermanentFailure(o) ==
  /\ o.kind = "response"
  /\ ~(o.status >= 200 /\ o.status <= 299)
  /\ o.status < 500
  /\ o.status # 408 /\ o.status # 429

\* A 2xx response whose body is an object with a documents list.
OkWithDocuments(o) ==
  /\ o.kind = "response"
  /\ o.status >= 200 /\ o.status <= 299
  /\ o.body.t = "object" /\ o.body.key = "documents" /\ o.body.val.t = "array"

\* The network call failed: no 2xx response came back.
CallFailed(o) == ~(o.kind = "response" /\ o.status >= 200 /\ o.status <= 299)

IsSearch == op = "search_knowledge_base"
Searching == IsSearch /\ ~OnlyWhitespace(args.query)
Done == pc = "done"

\* The outcome of the call is known and the tool is on its way out: it is
\* closing the client of that call, or it has returned.
Leaving == pc \in {"closing", "done"}

\* The envelope is a failure envelope: success is false and it has an error.
IsFailureEnvelope(env) ==
  /\ "success" \in DOMAIN env /\ env.success = FALSE
  /\ "error" \in DOMAIN env /\ env.error \in Seq(STRING)

\* C1: every invocation of the three tools, whatever the remote does on each
\* attempt, ends with an envelope whose success is a boolean and which has an
\* error text when success is false; no exception leaves the tool, and an
\* invocation that has not returned can still take a step.
C1_AlwaysEnvelope ==
  /\ pc # "raised"
  /\ raised = NoException
  /\ pc \in {"idle", "await_post", "await_get", "closing", "sleep", "done"}
  /\ ~Done => ENABLED Next
  /\ Done => /\ "success" \in DOMAIN result
             /\ result.success \in BOOLEAN
             /\ ~result.success => IsFailureEnvelope(result)

\* C1 witness: the failure raised inside an except clause (the unbound name of
\* the sleep call) has been turned into a failure envelope.
C1_Witness ==
  /\ IsSearch /\ Done /\ outcomes # <<>>
  /\ Last(outcomes).kind = "response" /\ Last(outcomes).status = 503
  /\ IsFailureEnvelope(result)
  /\ Contains(result.error, "asyncio")

\* C2: a remote whose first k attempts (k in 0..2) fail with a retryable
\* condition and whose attempt k+1 answers 2xx with a documents list makes
\* the search return success with those documents after exactly k+1 attempts
\* and the first k delays of <<1, 2>>.  Stated on the returned invocation: the
\* outcomes it consumed are a prefix of such a script, and it must have
\* consumed the whole script.
C2_RetryThenSuccess ==
  (/\ Searching /\ Done /\ outcomes # <<>>
   /\ \A i \in 1..(Len(outcomes) - 1) : RetryableFailure(outcomes[i])
   /\ \/ OkWithDocuments(Last(outcomes)) /\ Len(outcomes) <= 3
      \/ RetryableFailure(Last(outcomes)) /\ Len(outcomes) <= 2)
  => /\ OkWithDocuments(Last(outcomes))
     /\ result.success = TRUE
     /\ result.results = Last(outcomes).body.val.v
     /\ result.count = Len(result.results)
     /\ Len(requests) = Len(outcomes)
     /\ slept = SubSeq(<<1, 2>>, 1, Len(outcomes) - 1)

\* C3: a remote that fails all three attempts with a retryable condition makes
\* the search return a failure whose error names the status, after exactly 3
\* attempts and 2 delays, and a 4th attempt is never made.
C3_RetriesExhausted ==
  /\ IsSearch => Len(requests) <= 3
  /\ (/\ Searching /\ Done /\ outcomes # <<>>
      /\ \A i \in DOMAIN outcomes : RetryableFailure(outcomes[i]))
     => /\ Len(outcomes) = 3
        /\ Len(requests) = 3
        /\ Len(slept) = 2
        /\ IsFailureEnvelope(result)
        /\ Last(outcomes).kind = "response"
             => Contains(result.error, ToString(Last(outcomes).status))

\* C4: a non-2xx status below 500 other than 408 and 429 on any attempt of a
\* search ends the retry loop at once: it is the last attempt, no delay
\* follows it, and once the client of that attempt is closed the failure
\* envelope is returned.
C4_PermanentAborts ==
  IsSearch =>
    \A i \in DOMAIN outcomes :
      PermanentFailure(outcomes[i]) =>
        /\ i = Len(outcomes)
        /\ Len(requests) = i
        /\ Len(slept) = i - 1
        /\ Leaving
        /\ Done => IsFailureEnvelope(result)

\* C4 witness: a 404 on the second attempt, after a retried 503.
C4_Witness ==
  /\ IsSearch /\ Done
  /\ Len(outcomes) = 2
  /\ outcomes[1].status = 503
  /\ outcomes[2].kind = "response" /\ outcomes[2].status = 404
  /\ slept = <<1>>

\* C5: in a search, a failed attempt n < 3 whose failure is a timeout or a
\* status >= 500, 408 or 429 is followed by the backoff delay and then by
\* attempt n+1: while that failure is the latest outcome the invocation is
\* closing the client of the failed attempt, waiting the delay, or has waited
\* n delays and started attempt n+1.
C5_RetryableIsRetried ==
  (/\ IsSearch /\ outcomes # <<>>
   /\ Len(outcomes) < 3
   /\ RetryableFailure(Last(outcomes)))
  => \/ pc = "closing" /\ Len(requests) = Len(outcomes)
                       /\ Len(slept) = Len(outcomes) - 1
     \/ pc = "sleep" /\ Len(requests) = Len(outcomes)
                     /\ Len(slept) = Len(outcomes) - 1
     \/ pc = "await_post" /\ Len(requests) = Len(outcomes) + 1
                          /\ Len(slept) = Len(outcomes)

\* C6: a search whose query is empty or only whitespace, and a get_document
\* whose document_id is empty or only whitespace, return the fixed validation
\* envelope, and no network call is made and no delay waited.
C6_BlankInputRejected ==
  /\ (IsSearch /\ OnlyWhitespace(args.query))
       => /\ Done
          /\ result = [success |-> FALSE,
                       error |-> <<"Query cannot be empty">>,
                       query |-> args.query]
          /\ requests = <<>> /\ outcomes = <<>> /\ slept = <<>>
  /\ (op = "get_document" /\ OnlyWhitespace(args.document_id))
       => /\ Done
          /\ result = [success |-> FALSE,
                       error |-> <<"Document ID cannot be empty">>]
          /\ requests = <<>> /\ outcomes = <<>> /\ slept = <<>>

\* C6 witness: a whitespace-only query with an out-of-range top_k was rejected.
C6_Witness ==
  /\ IsSearch /\ Done
  /\ args.query = <<" ", " ">>
  /\ args.top_k = 21
  /\ result.error = <<"Query cannot be empty">>

\* The value the spec gives for a clamped input: lo below lo, hi above hi.
Clamped(x, lo, hi) == IF x < lo THEN lo ELSE IF x > hi THEN hi ELSE x

\* C7: for a search with a non-blank query, every outbound request carries
\* top_k clamped into 1..20 and score_threshold clamped into 0.0..1.0 (tenths:
\* 0..10), a request is sent, and an out-of-range input alone never gives a
\* failure: a first answer of 2xx with documents ends the search, with
\* success.
C7_ClampedInRequests ==
  Searching =>
    /\ requests # <<>>
    /\ \A i \in DOMAIN requests :
         /\ requests[i].body.top_k = Clamped(args.top_k, 1, 20)
         /\ requests[i].body.score_threshold
              = Clamped(args.score_threshold, 0, 10)
    /\ (Len(outcomes) = 1 /\ OkWithDocuments(outcomes[1]))
         => Leaving /\ (Done => result.success = TRUE)

\* C7 witness: the second attempt of a search called with top_k and
\* score_threshold above their range went out with 20 and 1.0.
C7_Witness ==
  /\ Searching
  /\ args.top_k = 21 /\ args.score_threshold = 11
  /\ Len(requests) = 2
  /\ requests[2].body.top_k = 20
  /\ requests[2].body.score_threshold = 10

\* C8: in a search, a transport failure that is neither a timeout nor a status
\* error is terminal on any attempt: it is the last attempt, no delay follows
\* it and the failure envelope is returned.
C8_OtherTransportTerminal ==
  IsSearch =>
    \A i \in DOMAIN outcomes :
      (outcomes[i].kind \notin {"response", "ConnectTimeout", "ReadTimeout"}) =>
        /\ i = Len(outcomes)
        /\ Len(requests) = i
        /\ Len(slept) = i - 1
        /\ Done
        /\ IsFailureEnvelope(result)

\* C8 witness: a refused connection on the second attempt, after a timeout.
C8_Witness ==
  /\ IsSearch /\ Done
  /\ Len(outcomes) = 2
  /\ outcomes[1].kind = "ReadTimeout"
  /\ outcomes[2].kind = "ConnectError"
  /\ slept = <<1>>

\* C9: get_document with a non-blank document_id and list_collections issue
\* exactly one network call and never wait a delay, whatever the remote does;
\* once the call has ended the tool closes its client and returns, with a
\* failure envelope when the call failed.
C9_SingleAttempt ==
  (\/ op = "get_document" /\ ~OnlyWhitespace(args.document_id)
   \/ op = "list_collections")
  => /\ Len(requests) = 1
     /\ slept = <<>>
     /\ pc # "sleep"
     /\ Len(outcomes) <= 1
     /\ outcomes # <<>> =>
          /\ Leaving
          /\ (Done /\ CallFailed(outcomes[1])) => IsFailureEnvelope(result)

\* C9 witness: get_document ended by a timeout of its only call.
C9_Witness ==
  /\ op = "get_document" /\ Done
  /\ outcomes = <<[kind |-> "ReadTimeout", status |-> 0, body |-> MalformedBody]>>
  /\ Len(requests) = 1
  /\ IsFailureEnvelope(result)

\* C10 as stated: a get_document that fails after its network call returns
\* success=false, an error text, the document_id and the collection_name.
C10_FailureHasCollection ==
  (op = "get_document" /\ Done /\ outcomes # <<>> /\ CallFailed(outcomes[1]))
  => /\ IsFailureEnvelope(result)
     /\ "document_id" \in DOMAIN result
     /\ result.document_id = args.document_id
     /\ "collection_name" \in DOMAIN result
     /\ result.collection_name = args.collection_name

\* C10 amended: a get_document that fails after its network call returns
\* success=false, an error text and the document_id of the request, and
\* nothing else: the envelope has no collection_name.
C10_FailureHasDocumentId ==
  (op = "get_document" /\ Done /\ outcomes # <<>> /\ CallFailed(outcomes[1]))
  => /\ IsFailureEnvelope(result)
     /\ DOMAIN result = {"success", "error", "document_id"}
     /\ result.document_id = args.document_id

\* C10 witness: get_document for "a" in collection kb failed on a 503.
C10_Witness ==
  /\ op = "get_document" /\ Done
  /\ args.document_id = <<"a">> /\ args.collection_name = "kb"
  /\ outcomes[1].kind = "response" /\ outcomes[1].status = 503
  /\ result.success = FALSE

\* A 2xx response.
Is2xx(o) == o.kind = "response" /\ o.status >= 200 /\ o.status <= 299

\* The documents field of a response body, the empty sequence when absent.
DocumentsOf(o) == IF o.body.key = "documents" THEN o.body.val.v ELSE <<>>

\* C11: a search that returns success=true returns the original query, the
\* requested collection, results equal to the documents field of the response
\* of the last attempt (empty when the field is absent) and count equal to
\* the length of results.
C11_SuccessEnvelope ==
  (IsSearch /\ Done /\ result.success = TRUE)
  => /\ DOMAIN result = {"success", "query", "collection", "results", "count"}
     /\ result.query = args.query
     /\ result.collection = args.collection_name
     /\ result.results = DocumentsOf(Last(outcomes))
     /\ result.count = Len(result.results)

\* C11 witness: a search for " a" in kb returned the two documents of the
\* second attempt's response.
C11_Witness ==
  /\ IsSearch /\ Done
  /\ args.query = <<" ", "a">> /\ args.collection_name = "kb"
  /\ Len(outcomes) = 2
  /\ result.success = TRUE
  /\ result.results = <<"doc1", "doc2">> /\ result.count = 2

\* C12: a search that fails after validation returns success=false, the
\* original query, the requested collection, and as error text the message of
\* the remote failure of the last attempt made.
C12_FailureEnvelope ==
  (Searching /\ Done /\ result.success = FALSE /\ outcomes # <<>>)
  => /\ result.query = args.query
     /\ result.collection = args.collection_name
     /\ CallFailed(Last(outcomes))
          => result.error = RequestException(Last(outcomes), "/api/search").msg

\* C13: in every state of a search at most 3 attempts have been started, at
\* most 2 delays waited, the delays waited number the attempts started minus
\* one while an attempt is in flight, the i-th delay is the i-th entry of
\* <<1, 2, 4>>, and the delay of 4 is never waited.
C13_RetrySchedule ==
  IsSearch =>
    /\ Len(requests) <= 3
    /\ Len(slept) <= 2
    /\ pc = "await_post" => Len(slept) = Len(requests) - 1
    /\ \A i \in DOMAIN slept : slept[i] = <<1, 2, 4>>[i] /\ slept[i] # 4

\* C13 witness: the third attempt is in flight after the delays 1 and 2.
C13_Witness ==
  /\ IsSearch /\ pc = "await_post"
  /\ Len(requests) = 3
  /\ slept = <<1, 2>>

\* Attempts started whose outcome is not known yet.
InFlight == Len(requests) - Len(outcomes)

\* C14: attempts of one search are strictly sequential: at most one is in
\* flight at any time, and a further attempt starts only from the backoff
\* wait, when the outcome of every earlier attempt is known, and its start is
\* the moment the delay following the previous attempt has elapsed.
C14_Sequential ==
  /\ [](IsSearch => /\ InFlight \in {0, 1}
                    /\ (pc = "await_post") <=> (InFlight = 1))
  /\ [][(IsSearch /\ requests # <<>> /\ Len(requests') > Len(requests))
          => /\ Len(requests') = Len(requests) + 1
             /\ InFlight = 0
             /\ pc = "sleep"
             /\ slept' = Append(slept, <<1, 2, 4>>[Len(requests)])]_vars

\* C14 witness: attempt 2 is in flight, attempt 1 has ended and the delay of
\* 1 second has been waited.
C14_Witness ==
  /\ IsSearch /\ pc = "await_post"
  /\ Len(requests) = 2 /\ Len(outcomes) = 1
  /\ slept = <<1>>

\* C15: in a search a 2xx response ends the retry loop at once: it is the
\* last attempt and no delay follows it, also when its body cannot be parsed,
\* and then the failure envelope is returned once the client is closed.
C15_SuccessEndsLoop ==
  IsSearch =>
    \A i \in DOMAIN outcomes :
      Is2xx(outcomes[i]) =>
        /\ i = Len(outcomes)
        /\ Len(requests) = i
        /\ Len(slept) = i - 1
        /\ Leaving
        /\ (Done /\ outcomes[i].body.t = "invalid") => IsFailureEnvelope(result)

\* C15 witness: a 200 with a malformed body on the second attempt ended the
\* search with a failure.
C15_Witness ==
  /\ IsSearch /\ Done
  /\ Len(outcomes) = 2
  /\ outcomes[1].status = 503
  /\ Is2xx(outcomes[2]) /\ outcomes[2].body.t = "invalid"
  /\ slept = <<1>>
  /\ result.success = FALSE

\* The error texts of a failed parse of the response.
ParseErrorTexts == {JSONDecodeError.msg, AttributeErrorGet.msg, TypeErrorLen.msg}

\* C17: the parse of the response is reached only after an attempt returned
\* 2xx: a success, and a failure whose error is a parse error, imply that the
\* last attempt returned 2xx and that the local response is the response of
\* that attempt; every other way out of the loop gives the failure envelope.
C17_ParseOnlyAfter2xx ==
  (IsSearch /\ Done /\ outcomes # <<>>)
  => /\ (result.success = TRUE \/ result.error \in ParseErrorTexts)
          => Is2xx(Last(outcomes)) /\ response = Last(outcomes)
     /\ ~Is2xx(Last(outcomes)) => IsFailureEnvelope(result)

\* C17 witness: success on the second attempt, the local response being the
\* 200 of that attempt and not the 503 of the first.
C17_Witness ==
  /\ IsSearch /\ Done
  /\ Len(outcomes) = 2
  /\ outcomes[1].kind = "response" /\ outcomes[1].status = 503
  /\ result.success = TRUE
  /\ response = outcomes[2]

\* C18: all attempts of one search send the same request: the locals query,
\* collection_name, top_k and score_threshold are left unchanged by a failed
\* attempt, by the close of its client and by a backoff delay, so every body
\* equals the first.
C18_SameRequest ==
  /\ [](IsSearch => \A i \in DOMAIN requests : requests[i] = requests[1])
  /\ [][(pc \in {"await_post", "closing", "sleep"})
          => /\ query' = query
             /\ collection_name' = collection_name
             /\ top_k' = top_k
             /\ score_threshold' = score_threshold]_vars

\* C18 witness: the third attempt of a search called with top_k 0 carries the
\* body of the first, top_k 1.
C18_Witness ==
  /\ IsSearch
  /\ args.top_k = 0
  /\ Len(requests) = 3
  /\ requests[3] = requests[1]
  /\ requests[3].body.top_k = 1

\* C16: two invocations running on one loop share no state.  (1) Every step
\* either is a step of the running invocation, which leaves the suspended
\* frame as it was, or is a switch, which hands both frames over unchanged.
\* (2) What an invocation did and returned is a function of its arguments and
\* of the outcomes of its own calls: two finished invocations with equal
\* arguments and equal outcomes made the same requests, waited the same
\* delays and returned the same envelope.  (3) While one invocation is
\* suspended on a network call, on the close of its client or on a backoff
\* delay, the other one, unless it has returned, can take a step.
C16_Independent ==
  /\ [][\/ parked' = parked
        \/ parked' = Frame /\ Frame' = parked]_vars
  /\ []((/\ Done /\ parked.pc = "done"
         /\ args.tool = parked.args.tool
         /\ args = parked.args
         /\ outcomes = parked.outcomes)
        => /\ requests = parked.requests
           /\ slept = parked.slept
           /\ result = parked.result)
  /\ []((parked.pc \in {"await_post", "await_get", "closing", "sleep"} /\ ~Done)
        => ENABLED RunningStep)

\* C16 witness: a search has returned success after a retry while the other
\* invocation, a search with the same arguments that got the same first
\* outcome, is still waiting its backoff delay.
C16_Witness ==
  /\ IsSearch /\ Done /\ result.success = TRUE
  /\ slept = <<1>>
  /\ parked.op = "search_knowledge_base" /\ parked.pc = "sleep"
  /\ parked.args = args
  /\ parked.outcomes = <<outcomes[1]>>

\* C19: when every network call yields an outcome, every client is closed
\* and every backoff delay elapses, every invocation of the three tools
\* returns an envelope.
C19_EventuallyReturns == (pc # "idle") ~> (Done /\ "success" \in DOMAIN result)

\* C19 witness: a search returned after three failed attempts.
C19_Witness ==
  /\ IsSearch /\ Done
  /\ Len(outcomes) = 3
  /\ \A i \in 1..3 : RetryableFailure(outcomes[i])
  /\ "success" \in DOMAIN result

====
